---- MODULE Spec2Model ----
(***************************************************************************)
(* Model of withings_sync/server.py: the GET handler of the HTTP file      *)
(* server (path resolution, the served-root check, classification, the     *)
(* directory listing and file streaming).                                  *)
(*                                                                         *)
(* Text is modelled as sequences of one-character strings, so that the     *)
(* string operations of the handler (unquote, startswith, split, lstrip,   *)
(* normpath, dirname, html.escape) are computed character by character.    *)
(***************************************************************************)
EXTENDS Integers, Sequences, FiniteSets, TLC

(***************************************************************************)
(* Bounds of the model.                                                    *)
(***************************************************************************)
\* the request path holds at most MaxSegs '/'-separated segments
MaxSegs == 3
\* another process appends to a served file up to MaxFileLen bytes
MaxFileLen == 4
\* at most MaxEnvSteps steps of other processes (file changes) per request
MaxEnvSteps == 1
\* at most MaxStatFail children of a directory fail to stat in one listing
MaxStatFail == 1
\* the configured chunk size in bytes (server.py reads it from the
\* environment, 1 MiB by default; here files are a few bytes long)
BUFFER_SIZE == 2

(***************************************************************************)
(* Characters.  Ascii lists the printable ASCII characters from code 32    *)
(* to code 126 (the grave accent, code 96, is written U+0060); Code and    *)
(* Chr convert between a character and its code.                           *)
(***************************************************************************)
Ascii ==
  << " ", "!", "\"", "#", "$", "%", "&", "'", "(", ")", "*", "+", ",", "-",
     ".", "/", "0", "1", "2", "3", "4", "5", "6", "7", "8", "9", ":", ";",
     "<", "=", ">", "?", "@", "A", "B", "C", "D", "E", "F", "G", "H", "I",
     "J", "K", "L", "M", "N", "O", "P", "Q", "R", "S", "T", "U", "V", "W",
     "X", "Y", "Z", "[", "\\", "]", "^", "_", "U+0060", "a", "b", "c", "d", "e",
     "f", "g", "h", "i", "j", "k", "l", "m", "n", "o", "p", "q", "r", "s",
     "t", "u", "v", "w", "x", "y", "z", "{", "|", "}", "~" >>

CodeTable ==
  [c \in {Ascii[i] : i \in 1..Len(Ascii)} |->
     31 + (CHOOSE i \in 1..Len(Ascii) : Ascii[i] = c)]

Code(c) == IF c \in DOMAIN CodeTable THEN CodeTable[c] ELSE 65533

\* a decoded byte outside printable ASCII is kept as one opaque character
Chr(n) == IF n \in 32..126 THEN Ascii[n - 31] ELSE "U+FFFD"

\* the hexadecimal digits, in either case, and their values
IsHex(c) == Code(c) \in (48..57) \cup (65..70) \cup (97..102)

HexVal(c) ==
  IF Code(c) \in 48..57 THEN Code(c) - 48
  ELSE IF Code(c) \in 65..70 THEN Code(c) - 55
  ELSE Code(c) - 87

(***************************************************************************)
(* String helpers (str.startswith, str.endswith, slicing, str.lstrip,      *)
(* str.rstrip, str.split(sep)[0], str.lower, comparison).                  *)
(***************************************************************************)
StartsWith(s, p) == Len(p) <= Len(s) /\ SubSeq(s, 1, Len(p)) = p

EndsWith(s, p) == Len(p) <= Len(s) /\ SubSeq(s, Len(s) - Len(p) + 1, Len(s)) = p

Drop(s, n) == SubSeq(s, n + 1, Len(s))

RECURSIVE LStrip(_, _)
LStrip(s, c) == IF s # <<>> /\ Head(s) = c THEN LStrip(Tail(s), c) ELSE s

RECURSIVE RStrip(_, _)
RStrip(s, c) ==
  IF s # <<>> /\ s[Len(s)] = c THEN RStrip(SubSeq(s, 1, Len(s) - 1), c) ELSE s

\* s.split(c)[0]: the text before the first c
RECURSIVE BeforeFirst(_, _)
BeforeFirst(s, c) ==
  IF s = <<>> \/ Head(s) = c THEN <<>> ELSE <<Head(s)>> \o BeforeFirst(Tail(s), c)

LowerChar(c) == IF Code(c) \in 65..90 THEN Chr(Code(c) + 32) ELSE c

lower(s) == [i \in 1..Len(s) |-> LowerChar(s[i])]

\* s <= t in Python's string order (by code point, a prefix first)
RECURSIVE StrLeq(_, _)
StrLeq(s, t) ==
  IF s = <<>> THEN TRUE
  ELSE IF t = <<>> THEN FALSE
  ELSE IF Head(s) = Head(t) THEN StrLeq(Tail(s), Tail(t))
  ELSE Code(Head(s)) < Code(Head(t))

\* s.split('/'): the components between the separators (empty ones kept)
RECURSIVE Split(_, _)
Split(s, c) ==
  IF s = <<>> THEN << <<>> >>
  ELSE LET rest == Split(Tail(s), c)
       IN  IF Head(s) = c THEN << <<>> >> \o rest
           ELSE << <<Head(s)>> \o rest[1] >> \o Tail(rest)

\* '/'.join(comps)
RECURSIVE Join(_)
Join(comps) ==
  IF comps = <<>> THEN <<>>
  ELSE IF Len(comps) = 1 THEN comps[1]
  ELSE comps[1] \o <<"/">> \o Join(Tail(comps))

(***************************************************************************)
(* urllib.parse.unquote: every '%' followed by two hex digits becomes the  *)
(* character with that code; any other '%' is kept.                        *)
(***************************************************************************)
RECURSIVE unquote(_)
unquote(s) ==
  IF s = <<>> THEN <<>>
  ELSE IF Head(s) = "%" /\ Len(s) >= 3 /\ IsHex(s[2]) /\ IsHex(s[3])
       THEN <<Chr(16 * HexVal(s[2]) + HexVal(s[3]))>> \o unquote(Drop(s, 3))
       ELSE <<Head(s)>> \o unquote(Tail(s))

(***************************************************************************)
(* os.path.normpath (posix): drops empty and '.' components, lets '..'     *)
(* cancel the component before it, never climbs above '/'.                 *)
(***************************************************************************)
RECURSIVE NormComps(_, _, _)
NormComps(comps, acc, initial_slashes) ==
  IF comps = <<>> THEN acc
  ELSE LET comp == Head(comps)
           dotdot == <<".", ".">>
       IN  IF comp = <<>> \/ comp = <<".">>
           THEN NormComps(Tail(comps), acc, initial_slashes)
           ELSE IF comp # dotdot
                   \/ (initial_slashes = 0 /\ acc = <<>>)
                   \/ (acc # <<>> /\ acc[Len(acc)] = dotdot)
                THEN NormComps(Tail(comps), Append(acc, comp), initial_slashes)
                ELSE IF acc # <<>>
                     THEN NormComps(Tail(comps), SubSeq(acc, 1, Len(acc) - 1), initial_slashes)
                     ELSE NormComps(Tail(comps), acc, initial_slashes)

normpath(p) ==
  IF p = <<>> THEN <<".">>
  ELSE LET initial_slashes ==
             IF ~StartsWith(p, <<"/">>) THEN 0
             ELSE IF StartsWith(p, <<"/", "/">>) /\ ~StartsWith(p, <<"/", "/", "/">>)
                  THEN 2 ELSE 1
           joined == Join(NormComps(Split(p, "/"), <<>>, initial_slashes))
           res == [i \in 1..initial_slashes |-> "/"] \o joined
       IN  IF res = <<>> THEN <<".">> ELSE res

\* os.path.join(a, b) for a relative b
join(a, b) == IF a = <<>> \/ EndsWith(a, <<"/">>) THEN a \o b ELSE a \o <<"/">> \o b

\* the index of the last '/' of s (0 when there is none)
RECURSIVE LastSlash(_)
LastSlash(s) ==
  IF s = <<>> THEN 0 ELSE IF s[Len(s)] = "/" THEN Len(s) ELSE LastSlash(SubSeq(s, 1, Len(s) - 1))

\* os.path.dirname (posix)
dirname(p) ==
  LET head == SubSeq(p, 1, LastSlash(p))
  IN  IF head # <<>> /\ RStrip(head, "/") # <<>> THEN RStrip(head, "/") ELSE head

\* os.path.basename (posix)
basename(p) == Drop(p, LastSlash(p))

(***************************************************************************)
(* html.escape(s, quote=True)                                              *)
(***************************************************************************)
EscapeChar(c) ==
  CASE c = "&"  -> <<"&", "a", "m", "p", ";">>
    [] c = "<"  -> <<"&", "l", "t", ";">>
    [] c = ">"  -> <<"&", "g", "t", ";">>
    [] c = "\"" -> <<"&", "q", "u", "o", "t", ";">>
    [] c = "'"  -> <<"&", "#", "x", "2", "7", ";">>
    [] OTHER    -> <<c>>

RECURSIVE escape(_)
escape(s) == IF s = <<>> THEN <<>> ELSE EscapeChar(Head(s)) \o escape(Tail(s))

(***************************************************************************)
(* Configuration (server.py, "VARIABLES" section).                         *)
(***************************************************************************)
BASE_PATH == <<"/", "w", "t">>

SERVE_DIRECTORY == <<"/", "w", "i", "t", "h", "i", "n", "g", "s">>

\* os.path.abspath of an absolute path
abspath(p) == normpath(p)

\* os.path.abspath(SERVE_DIRECTORY)
ServeRoot == abspath(SERVE_DIRECTORY)

(***************************************************************************)
(* The filesystem the server runs on.  Under the served root: a regular    *)
(* file a, a named pipe B and a directory sub, which holds a directory a   *)
(* that cannot be listed and an empty file named <?>.  Beside the served   *)
(* root: the directory /withings-other with a file a.                      *)
(***************************************************************************)
Sibling == SERVE_DIRECTORY \o <<"-", "o", "t", "h", "e", "r">>

Under(dir, name) == dir \o <<"/">> \o name

SubDir == Under(SERVE_DIRECTORY, <<"s", "u", "b">>)

Node(kind, readable, content) ==
  [kind |-> kind, readable |-> readable, content |-> content]

Tree ==
  (SERVE_DIRECTORY :> Node("dir", TRUE, <<>>))
  @@ (Under(SERVE_DIRECTORY, <<"a">>) :> Node("file", TRUE, <<1, 2, 3>>))
  @@ (Under(SERVE_DIRECTORY, <<"B">>) :> Node("fifo", TRUE, <<>>))
  @@ (SubDir :> Node("dir", TRUE, <<>>))
  @@ (Under(SubDir, <<"a">>) :> Node("dir", FALSE, <<>>))
  @@ (Under(SubDir, <<"<", "?", ">">>) :> Node("file", TRUE, <<>>))
  @@ (Sibling :> Node("dir", TRUE, <<>>))
  @@ (Under(Sibling, <<"a">>) :> Node("file", TRUE, <<7>>))

Exists(f, p) == p \in DOMAIN f /\ f[p].kind # "gone"

\* os.path.isdir, os.path.isfile
isdir(f, p) == Exists(f, p) /\ f[p].kind = "dir"

isfile(f, p) == Exists(f, p) /\ f[p].kind = "file"

\* the names os.listdir(dir) returns, in no particular order
listdir(f, dir) == {basename(p) : p \in {q \in DOMAIN f : Exists(f, q) /\ dirname(q) = dir}}

(***************************************************************************)
(* Request paths: an optional base path, up to MaxSegs segments, an        *)
(* optional query string.                                                  *)
(***************************************************************************)
Segs ==
  { <<>>, <<".">>, <<".", ".">>, <<"%", "2", "E", "%", "2", "e">>,
    <<"a">>, <<"B">>, <<"s", "u", "b">>,
    <<"w", "i", "t", "h", "i", "n", "g", "s", "-", "o", "t", "h", "e", "r">>,
    <<"%", "2", "2", "%", "3", "C">> }

Prefixes == { <<>>, BASE_PATH }

Queries == { <<>>, <<"?", "/", ".", ".">> }

RECURSIVE SegPath(_)
SegPath(ss) == IF ss = <<>> THEN <<>> ELSE <<"/">> \o Head(ss) \o SegPath(Tail(ss))

RequestPaths ==
  { r \in { pre \o SegPath(ss) \o q :
              pre \in Prefixes,
              ss \in UNION { [1..n -> Segs] : n \in 0..MaxSegs },
              q \in Queries } : StartsWith(r, <<"/">>) }

VARIABLES
  path,            \* self.path: the request path as received
  fs,              \* the filesystem
  connUp,          \* the client is still connected
  pc,              \* the handler's position
  parsed_path,     \* do_GET: parsed_path
  full_path,       \* do_GET: full_path
  outcome,         \* how do_GET classified the request
  responses,       \* the statuses passed to send_response / send_error, in order
  heads,           \* the statuses of the response heads written to the connection
  content_length,  \* the Content-Length of the 200 head of a file (-1: none sent)
  body,            \* the file bytes written to the connection
  html_content,    \* serve_directory: the generated document (<<>> or <<doc>>)
  listing,         \* the listing document written to the connection
  stat_ok,         \* serve_directory: the children whose stat succeeded
  file_size,       \* serve_file: file_size
  pos,             \* serve_file: the read offset of the open file
  file_error,      \* serve_file: the step that raised ("none" when none did)
  envSteps         \* steps other processes have taken on the served file

vars == <<path, fs, connUp, pc, parsed_path, full_path, outcome,
          responses, heads, content_length, body, html_content, listing,
          stat_ok, file_size, pos, file_error, envSteps>>

Init ==
  /\ path \in RequestPaths
  /\ fs = Tree
  /\ connUp = TRUE
  /\ pc = "start"
  /\ parsed_path = <<>>
  /\ full_path = <<>>
  /\ outcome = "none"
  /\ responses = <<>>
  /\ heads = <<>>
  /\ content_length = -1
  /\ body = <<>>
  /\ html_content = <<>>
  /\ listing = <<>>
  /\ stat_ok = {}
  /\ file_size = 0
  /\ pos = 0
  /\ file_error = "none"
  /\ envSteps = 0

(***************************************************************************)
(* do_GET, lines 79-90: from the request path to parsed_path, full_path.   *)
(***************************************************************************)
ParsedPath(p) ==
  LET p1 == unquote(p)
      p2 == IF StartsWith(p1, BASE_PATH) THEN Drop(p1, Len(BASE_PATH)) ELSE p1
      p3 == IF ~StartsWith(p2, <<"/">>) THEN <<"/">> \o p2 ELSE p2
  IN  BeforeFirst(p3, "?")

FullPath(parsed) == normpath(join(SERVE_DIRECTORY, LStrip(parsed, "/")))

\* do_GET, line 93: the security check
PathAllowed(full) == StartsWith(full, ServeRoot)

\* do_GET, lines 100-106: the classification of an allowed path
IsDirectory(f, full) == isdir(f, full)

\* a slip: os.path.exists in place of os.path.isfile
IsRegularFile_Exists(f, full) == Exists(f, full)

IsRegularFile(f, full) == isfile(f, full)

Classify(f, full) ==
  IF IsDirectory(f, full) THEN "Directory"
  ELSE IF IsRegularFile(f, full) THEN "RegularFile"
  ELSE "NotFound"

(***************************************************************************)
(* serve_directory, line 132: items.sort(key=(not is_dir, name.lower())),  *)
(* a stable sort.                                                          *)
(***************************************************************************)
\* a slip: the sort key without .lower()
SortName_CaseSensitive(item) == item.name

SortName(item) == lower(item.name)

\* key(a) <= key(b)
KeyLeq(a, b) ==
  \/ a.is_dir /\ ~b.is_dir
  \/ a.is_dir = b.is_dir /\ StrLeq(SortName(a), SortName(b))

RECURSIVE Insert(_, _)
Insert(sorted, x) ==
  IF sorted = <<>> THEN <<x>>
  ELSE IF KeyLeq(sorted[Len(sorted)], x) THEN Append(sorted, x)
  ELSE Append(Insert(SubSeq(sorted, 1, Len(sorted) - 1), x), sorted[Len(sorted)])

RECURSIVE SortItems(_)
SortItems(items) ==
  IF items = <<>> THEN <<>>
  ELSE Insert(SortItems(SubSeq(items, 1, Len(items) - 1)), items[Len(items)])

\* serve_directory, lines 117-129: one item per child whose stat succeeded,
\* in the order in which os.listdir returned them
StatItems(f, dir_path, names) ==
  [i \in 1..Len(names) |->
     [name |-> names[i], is_dir |-> isdir(f, Under(dir_path, names[i]))]]

(***************************************************************************)
(* generate_directory_html: the document, as its title, its heading, its   *)
(* parent-directory row (none or one link target), its entry rows and its  *)
(* footer count.  Every text is the text as it stands in the HTML source.  *)
(***************************************************************************)
UrlPath(url_path) == IF ~EndsWith(url_path, <<"/">>) THEN url_path \o <<"/">> ELSE url_path

ShowParent(url) == url # <<"/">> /\ RStrip(url, "/") # <<>>

ParentHref(url) ==
  LET parent_path == dirname(RStrip(url, "/"))
  IN  BASE_PATH \o (IF ~EndsWith(parent_path, <<"/">>) THEN parent_path \o <<"/">> ELSE parent_path)

\* the URL path as embedded in the link targets of the rows
HrefUrl(url) == url

ItemRow(item, url) ==
  LET name == escape(item.name)
      slash == IF item.is_dir THEN <<"/">> ELSE <<>>
  IN  [name   |-> item.name,
       is_dir |-> item.is_dir,
       href   |-> BASE_PATH \o HrefUrl(url) \o name \o slash,
       text   |-> name \o slash]

ItemCount(items) == Len(items)

generate_directory_html(items, url_path) ==
  LET url == UrlPath(url_path)
  IN  [title   |-> escape(url),
       heading |-> escape(url),
       parent  |-> IF ShowParent(url) THEN <<ParentHref(url)>> ELSE <<>>,
       rows    |-> [i \in 1..Len(items) |-> ItemRow(items[i], url)],
       count   |-> ItemCount(items)]

\* the orders in which os.listdir may return the names of S
Orders(S) == { o \in [1..Cardinality(S) -> S] : \A i, j \in DOMAIN o : i # j => o[i] # o[j] }

(***************************************************************************)
(* The handler.  A write to the connection raises once the client has      *)
(* disconnected.  send_error(500) from an except clause either writes the  *)
(* head of a 500 response, or raises in turn (Raised500).                  *)
(***************************************************************************)
Terminal == pc \in {"done", "raised"}

\* do_GET, lines 76-110, up to the call of serve_directory or serve_file
DoGET ==
  /\ pc = "start"
  /\ LET parsed == ParsedPath(path)
         full == FullPath(parsed)
         oc == IF ~PathAllowed(full) THEN "Forbidden" ELSE Classify(fs, full)
         code == IF oc = "Forbidden" THEN 403 ELSE 404
     IN  /\ parsed_path' = parsed
         /\ full_path' = full
         /\ outcome' = oc
         /\ IF oc = "Directory"
            THEN pc' = "serve_directory" /\ UNCHANGED <<responses, heads>>
            ELSE IF oc = "RegularFile"
            THEN pc' = "serve_file" /\ UNCHANGED <<responses, heads>>
            ELSE IF connUp
            THEN \* send_error(403) or send_error(404)
                 /\ responses' = Append(responses, code)
                 /\ heads' = Append(heads, code)
                 /\ pc' = "done"
            ELSE \* the write raises; line 110, send_error(500), raises too
                 /\ responses' = responses \o <<code, 500>>
                 /\ heads' = heads
                 /\ pc' = "raised"
  /\ UNCHANGED <<path, fs, connUp, content_length, body, html_content, listing,
                 stat_ok, file_size, pos, file_error, envSteps>>

\* serve_directory, lines 114-141: list, stat, sort, render, send the head
ServeDirectory ==
  /\ pc = "serve_directory"
  /\ IF ~(isdir(fs, full_path) /\ fs[full_path].readable)
     THEN \* os.listdir raises
          /\ pc' = "dir_except"
          /\ UNCHANGED <<responses, heads, html_content, stat_ok>>
     ELSE \E ok \in SUBSET listdir(fs, full_path) :
          /\ Cardinality(listdir(fs, full_path) \ ok) <= MaxStatFail
          /\ \E items \in { SortItems(StatItems(fs, full_path, order)) :
                              order \in Orders(ok) } :
            /\ stat_ok' = ok
            /\ html_content' = <<generate_directory_html(items, parsed_path)>>
            /\ responses' = Append(responses, 200)
            /\ IF connUp
               THEN heads' = Append(heads, 200) /\ pc' = "dir_write"
               ELSE heads' = heads /\ pc' = "dir_except"
  /\ UNCHANGED <<path, fs, connUp, parsed_path, full_path, outcome,
                 content_length, body, listing, file_size, pos, file_error, envSteps>>

\* serve_directory, lines 142-144: write the document
DirWrite ==
  /\ pc = "dir_write"
  /\ IF connUp
     THEN listing' = html_content /\ pc' = "done"
     ELSE listing' = listing /\ pc' = "dir_except"
  /\ UNCHANGED <<path, fs, connUp, parsed_path, full_path, outcome, responses,
                 heads, content_length, body, html_content, stat_ok, file_size,
                 pos, file_error, envSteps>>

\* an except clause: send_error(500); when that raises inside serve_directory
\* or serve_file, do_GET's except clause (line 110) calls it again
SendError500 ==
  IF connUp
  THEN /\ responses' = Append(responses, 500)
       /\ heads' = Append(heads, 500)
       /\ pc' = "done"
  ELSE /\ responses' = responses \o <<500, 500>>
       /\ heads' = heads
       /\ pc' = "raised"

\* serve_directory, lines 146-148
DirExcept ==
  /\ pc = "dir_except"
  /\ SendError500
  /\ UNCHANGED <<path, fs, connUp, parsed_path, full_path, outcome,
                 content_length, body, html_content, listing, stat_ok,
                 file_size, pos, file_error, envSteps>>

\* serve_file, lines 153-167: the size, the content type, the head
ServeFileHead ==
  /\ pc = "serve_file"
  /\ IF ~Exists(fs, full_path)
     THEN \* os.path.getsize raises
          /\ file_error' = "getsize"
          /\ pc' = "file_except"
          /\ UNCHANGED <<file_size, responses, heads, content_length>>
     ELSE /\ file_size' = Len(fs[full_path].content)
          /\ responses' = Append(responses, 200)
          /\ IF connUp
             THEN /\ heads' = Append(heads, 200)
                  /\ content_length' = Len(fs[full_path].content)
                  /\ pc' = "file_open"
                  /\ UNCHANGED file_error
             ELSE /\ file_error' = "write"
                  /\ pc' = "file_except"
                  /\ UNCHANGED <<heads, content_length>>
  /\ UNCHANGED <<path, fs, connUp, parsed_path, full_path, outcome, body,
                 html_content, listing, stat_ok, pos, envSteps>>

\* serve_file, line 171: open(file_path, 'rb')
FileOpen ==
  /\ pc = "file_open"
  /\ IF isfile(fs, full_path) /\ fs[full_path].readable
     THEN pc' = "file_read" /\ pos' = 0 /\ UNCHANGED file_error
     ELSE pc' = "file_except" /\ file_error' = "open" /\ UNCHANGED pos
  /\ UNCHANGED <<path, fs, connUp, parsed_path, full_path, outcome, responses,
                 heads, content_length, body, html_content, listing, stat_ok,
                 file_size, envSteps>>

\* f.read(BUFFER_SIZE) at offset pos
ReadChunk(content, offset) ==
  SubSeq(content, offset + 1,
         IF offset + BUFFER_SIZE < Len(content) THEN offset + BUFFER_SIZE ELSE Len(content))

\* serve_file, lines 172-179: one turn of the loop
FileChunk ==
  /\ pc = "file_read"
  /\ LET chunk == ReadChunk(fs[full_path].content, pos)
     IN  IF chunk = <<>>
         THEN pc' = "done" /\ UNCHANGED <<body, pos, file_error>>
         ELSE IF connUp
         THEN /\ body' = body \o chunk
              /\ pos' = pos + Len(chunk)
              /\ UNCHANGED <<pc, file_error>>
         ELSE /\ file_error' = "write"
              /\ pc' = "file_except"
              /\ UNCHANGED <<body, pos>>
  /\ UNCHANGED <<path, fs, connUp, parsed_path, full_path, outcome, responses,
                 heads, content_length, html_content, listing, stat_ok,
                 file_size, envSteps>>

\* serve_file, line 173: the read raises (an I/O error of the device)
FileReadError ==
  /\ pc = "file_read"
  /\ envSteps < MaxEnvSteps
  /\ envSteps' = envSteps + 1
  /\ file_error' = "read"
  /\ pc' = "file_except"
  /\ UNCHANGED <<path, fs, connUp, parsed_path, full_path, outcome, responses,
                 heads, content_length, body, html_content, listing, stat_ok,
                 file_size, pos>>

\* serve_file, lines 181-183
FileExcept ==
  /\ pc = "file_except"
  /\ SendError500
  /\ UNCHANGED <<path, fs, connUp, parsed_path, full_path, outcome,
                 content_length, body, html_content, listing, stat_ok,
                 file_size, pos, file_error, envSteps>>

(***************************************************************************)
(* The environment: the client, and other processes working on the file    *)
(* that is being served.                                                   *)
(***************************************************************************)
ClientDisconnect ==
  /\ ~Terminal
  /\ connUp
  /\ connUp' = FALSE
  /\ UNCHANGED <<path, fs, pc, parsed_path, full_path, outcome, responses, heads,
                 content_length, body, html_content, listing, stat_ok,
                 file_size, pos, file_error, envSteps>>

EnvStep(node) ==
  /\ envSteps < MaxEnvSteps
  /\ envSteps' = envSteps + 1
  /\ fs' = [fs EXCEPT ![full_path] = node]
  /\ UNCHANGED <<path, connUp, pc, parsed_path, full_path, outcome, responses,
                 heads, content_length, body, html_content, listing, stat_ok,
                 file_size, pos, file_error>>

\* another process works on the file in place while it is being served
FileChanging ==
  /\ pc \in {"serve_file", "file_open", "file_read"}
  /\ isfile(fs, full_path)

\* ... it appends a byte
FileAppend ==
  /\ FileChanging
  /\ Len(fs[full_path].content) < MaxFileLen
  /\ EnvStep([fs[full_path] EXCEPT !.content = Append(@, 9)])

\* ... it truncates the file, by one byte or to nothing
FileTruncate ==
  /\ FileChanging
  /\ fs[full_path].content # <<>>
  /\ \E n \in {0, Len(fs[full_path].content) - 1} :
       EnvStep([fs[full_path] EXCEPT !.content = SubSeq(@, 1, n)])

\* ... it overwrites the bytes, the size unchanged
FileRewrite ==
  /\ FileChanging
  /\ fs[full_path].content # [i \in 1..Len(fs[full_path].content) |-> 0]
  /\ EnvStep([fs[full_path] EXCEPT !.content = [i \in 1..Len(@) |-> 0]])

\* another process removes the file before the handler has opened it
FileRemove ==
  /\ pc \in {"serve_file", "file_open"}
  /\ isfile(fs, full_path)
  /\ EnvStep([fs[full_path] EXCEPT !.kind = "gone"])

\* another process takes the read permission away before the open
FileChmod ==
  /\ pc \in {"serve_file", "file_open"}
  /\ isfile(fs, full_path)
  /\ fs[full_path].readable
  /\ EnvStep([fs[full_path] EXCEPT !.readable = FALSE])

Next ==
  \/ DoGET
  \/ ServeDirectory
  \/ DirWrite
  \/ DirExcept
  \/ ServeFileHead
  \/ FileOpen
  \/ FileChunk
  \/ FileReadError
  \/ FileExcept
  \/ ClientDisconnect
  \/ FileAppend
  \/ FileTruncate
  \/ FileRewrite
  \/ FileRemove
  \/ FileChmod

Spec == Init /\ [][Next]_vars

(***************************************************************************)
(* What a browser does with a link target of the document: it decodes the  *)
(* character references and keeps the fragment ('#' onward) to itself.     *)
(***************************************************************************)
EntityChars == {"&", "<", ">", "\"", "'"}

RECURSIVE unescape(_)
unescape(s) ==
  IF s = <<>> THEN <<>>
  ELSE IF \E c \in EntityChars : StartsWith(s, EscapeChar(c))
  THEN LET c == CHOOSE d \in EntityChars : StartsWith(s, EscapeChar(d))
       IN  <<c>> \o unescape(Drop(s, Len(EscapeChar(c))))
  ELSE <<Head(s)>> \o unescape(Tail(s))

Browser(href) == BeforeFirst(unescape(href), "#")

\* the file the server resolves a followed link to
LinkTarget(href) == FullPath(ParsedPath(Browser(href)))

\* text of the HTML source that holds no raw '<', '>' or '"', and no '&'
\* other than the one that starts a character reference
WellEscaped(s) ==
  \A i \in 1..Len(s) :
    /\ s[i] \notin {"<", ">", "\""}
    /\ s[i] = "&" => \E c \in EntityChars : StartsWith(Drop(s, i - 1), EscapeChar(c))

\* the served root, and what lies below it by whole path components
Inside(full) ==
  \/ full = ServeRoot
  \/ StartsWith(full, ServeRoot \o <<"/">>)

Sent(status) == \E i \in 1..Len(responses) : responses[i] = status

(***************************************************************************)
(* C1: a request whose resolved path is neither the served root nor below  *)
(* it by whole path components is answered 403, and neither a listing nor  *)
(* file bytes are sent.                                                    *)
(***************************************************************************)
C1_OutsideRootForbidden ==
  (Terminal /\ ~Inside(full_path)) =>
    /\ responses # <<>> /\ responses[1] = 403
    /\ listing = <<>>
    /\ body = <<>>

(***************************************************************************)
(* C2: a file request that ends without an error response was answered    *)
(* 200 with a Content-Length equal to the number of body bytes written,    *)
(* and the body is the file's contents, whatever other processes did to    *)
(* the file meanwhile.                                                     *)
(***************************************************************************)
C2_ContentLengthIsBody ==
  (pc = "done" /\ outcome = "RegularFile" /\ responses = <<200>>) =>
    /\ heads = <<200>>
    /\ content_length = Len(body)
    /\ body = fs[full_path].content

(***************************************************************************)
(* C3: a request is answered 404 exactly when its path passes the          *)
(* served-root check and is, when classified, neither a directory nor a    *)
(* regular file; then no listing and no file bytes are sent.  A rejected   *)
(* path gets 403, only a directory gets a listing, only a regular file is  *)
(* streamed: each request has exactly one of the four outcomes.            *)
(***************************************************************************)
C3_NotFoundExactly ==
  pc # "start" =>
    LET allowed == PathAllowed(full_path)
        dir == allowed /\ full_path \in DOMAIN Tree /\ Tree[full_path].kind = "dir"
        file == allowed /\ full_path \in DOMAIN Tree /\ Tree[full_path].kind = "file"
        notfound == allowed /\ ~dir /\ ~file
    IN  /\ notfound => /\ responses # <<>> /\ responses[1] = 404
                       /\ \A i \in 1..Len(heads) : heads[i] = 404
                       /\ listing = <<>> /\ body = <<>> /\ content_length = -1
        /\ Sent(404) => notfound
        /\ Sent(403) <=> ~allowed
        /\ (html_content # <<>> \/ listing # <<>>) => dir
        /\ (body # <<>> \/ content_length # -1) => file
        /\ outcome = (IF ~allowed THEN "Forbidden" ELSE IF dir THEN "Directory"
                      ELSE IF file THEN "RegularFile" ELSE "NotFound")

\* a named pipe under the served root was requested and answered 404
C3_Witness ==
  /\ pc = "done"
  /\ full_path \in DOMAIN Tree /\ Tree[full_path].kind = "fifo"
  /\ heads = <<404>>

(***************************************************************************)
(* C4: a listing that was sent holds exactly one row for each child whose  *)
(* stat succeeded and none for the others, directories before              *)
(* non-directories, each group in case-insensitive name order, and its     *)
(* footer counts the entry rows.                                           *)
(***************************************************************************)
C4_ListingRows ==
  \A d \in 1..Len(listing) :
    LET rows == listing[d].rows
    IN  /\ stat_ok \subseteq listdir(Tree, full_path)
        /\ {rows[i].name : i \in 1..Len(rows)} = stat_ok
        /\ Len(rows) = Cardinality(stat_ok)
        /\ \A i \in 1..Len(rows) :
             rows[i].is_dir = isdir(Tree, Under(full_path, rows[i].name))
        /\ \A i, j \in 1..Len(rows) :
             i < j =>
               /\ ~(~rows[i].is_dir /\ rows[j].is_dir)
               /\ rows[i].is_dir = rows[j].is_dir =>
                    StrLeq(lower(rows[i].name), lower(rows[j].name))
        /\ listing[d].count = Len(rows)

\* a listing was sent with a directory row, a row of a non-directory whose
\* name sorts differently with and without case, and a child left out
\* because its stat failed
C4_Witness ==
  /\ listing # <<>>
  /\ stat_ok # listdir(Tree, full_path)
  /\ \E i, j \in 1..Len(listing[1].rows) :
       /\ listing[1].rows[i].is_dir
       /\ ~listing[1].rows[j].is_dir
       /\ listing[1].rows[j].name # lower(listing[1].rows[j].name)

(***************************************************************************)
(* C5: in a listing, the names and the request URL path are HTML-escaped   *)
(* wherever they are embedded: the title, the heading, the link texts, the *)
(* link targets of the rows and of the parent-directory row.               *)
(***************************************************************************)
C5_UserTextEscaped ==
  \A d \in 1..Len(listing) :
    /\ WellEscaped(listing[d].title)
    /\ WellEscaped(listing[d].heading)
    /\ \A i \in 1..Len(listing[d].parent) : WellEscaped(listing[d].parent[i])
    /\ \A i \in 1..Len(listing[d].rows) :
         /\ WellEscaped(listing[d].rows[i].href)
         /\ WellEscaped(listing[d].rows[i].text)

(***************************************************************************)
(* C6: a listing has a parent-directory row exactly when the listed        *)
(* directory is not the served root, and the target of that row ends in    *)
(* '/' and resolves to the directory one segment above the listed one.     *)
(***************************************************************************)
C6_ParentRow ==
  \A d \in 1..Len(listing) :
    /\ listing[d].parent # <<>> <=> full_path # ServeRoot
    /\ \A i \in 1..Len(listing[d].parent) :
         /\ EndsWith(listing[d].parent[i], <<"/">>)
         /\ LinkTarget(listing[d].parent[i]) = dirname(full_path)

(***************************************************************************)
(* C7: when serve_file fails before any body byte is written (the size     *)
(* cannot be read, the file cannot be opened, the first read fails), the   *)
(* status the client receives is 500.                                      *)
(***************************************************************************)
C7_EarlyFailureIs500 ==
  (Terminal /\ file_error \in {"getsize", "open", "read"} /\ body = <<>> /\ heads # <<>>) =>
    heads[1] = 500

(***************************************************************************)
(* C8: at most one response head is written to the connection per request. *)
(***************************************************************************)
C8_SingleHead == Len(heads) <= 1

(***************************************************************************)
(* C9: no failure propagates out of do_GET.                                *)
(***************************************************************************)
C9_NothingPropagates == pc # "raised"

(***************************************************************************)
(* C10: following the link of an entry row of a listing leads the server   *)
(* to the child the row describes.                                         *)
(***************************************************************************)
C10_LinkRoundTrip ==
  \A d \in 1..Len(listing) :
    \A i \in 1..Len(listing[d].rows) :
      LinkTarget(listing[d].rows[i].href) = Under(full_path, listing[d].rows[i].name)

====
